---- MODULE Spec2Model ----
(***************************************************************************)
(* MERCURANA (src/src/integrator_mercurana.c): the adaptive shell          *)
(* machinery of the integrator as a state machine.                         *)
(*                                                                         *)
(* Particles live on the x axis (y = z = vy = vz = 0), so every distance   *)
(* is an integer and sqrt(rmin2) is exact.  Lengths, velocities and        *)
(* accelerations are even integers and every critical radius is an even    *)
(* integer, so the halving in maxdrift = (sqrt(rmin2) - dcritsum)/2 is     *)
(* exact.  The global step dt is 32, so that every drift segment of the    *)
(* leap-frog splitting down to shell 2 with n = 2 sub-steps is an integer. *)
(* A C double is an integer of magnitude below HUGE, or +-HUGE, which      *)
(* stands for 1e300 and beyond (it absorbs every finite addend).           *)
(***************************************************************************)
EXTENDS Integers, Sequences, FiniteSets, TLC

\* number of global steps (part1 + part2) the host takes
MaxSteps == 2

\* the sentinel 1e300 written to maxdrift_* in the bootstrap of predict
HUGE == 1000000000

\* particle slots of the arrays of the model
MaxN == 4

\* shell rows of the tables of the model, and the largest Nmaxshells
MaxShells == 3

PIdx == 0 .. MaxN - 1
Shells == 0 .. MaxShells - 1

\* a NULL buffer handle
NULL == 0

----------------------------------------------------------------------------
(* C double arithmetic, saturating at +-HUGE                               *)

Abs(x) == IF x < 0 THEN -x ELSE x

Sgn(x) == IF x < 0 THEN -1 ELSE IF x > 0 THEN 1 ELSE 0

IsHuge(x) == Abs(x) >= HUGE

MIN(a, b) == IF a > b THEN b ELSE a

MAX(a, b) == IF a > b THEN a ELSE b

FAdd(x, y) ==
    IF IsHuge(x) /\ IsHuge(y) THEN (IF Sgn(x) = Sgn(y) THEN Sgn(x) * HUGE ELSE 0)
    ELSE IF IsHuge(x) THEN Sgn(x) * HUGE
    ELSE IF IsHuge(y) THEN Sgn(y) * HUGE
    ELSE x + y

FSub(x, y) == FAdd(x, -y)

FMul(x, y) ==
    IF x = 0 \/ y = 0 THEN 0
    ELSE IF IsHuge(x) \/ IsHuge(y) THEN Sgn(x) * Sgn(y) * HUGE
    ELSE IF Abs(x) >= 31623 /\ Abs(y) >= 31623 THEN Sgn(x) * Sgn(y) * HUGE
    ELSE IF Abs(x) >= 31623 THEN (IF Abs(x) > HUGE \div Abs(y) THEN Sgn(x) * Sgn(y) * HUGE ELSE x * y)
    ELSE IF Abs(y) >= 31623 THEN (IF Abs(y) > HUGE \div Abs(x) THEN Sgn(x) * Sgn(y) * HUGE ELSE x * y)
    ELSE x * y

\* (x)/2. on the even grid
FHalf(x) == IF IsHuge(x) THEN Sgn(x) * HUGE ELSE x \div 2

RECURSIVE SqrtBisect(_, _, _)
SqrtBisect(a, lo, hi) ==
    IF hi - lo <= 1 THEN lo
    ELSE LET mid == (lo + hi) \div 2
         IN IF mid * mid <= a THEN SqrtBisect(a, mid, hi) ELSE SqrtBisect(a, lo, mid)

\* sqrt() of a squared distance: exact on the squares the x axis produces
sqrt(a) == IF IsHuge(a) THEN HUGE ELSE SqrtBisect(a, 0, 31623)

----------------------------------------------------------------------------
(* The closest-approach predictor                                          *)

\* reb_mercurana_predict_rmin2 on the x axis.  t_closest is
\* (dx1*dvx1)/(dvx1*dvx1): NaN when dvx1 = 0, so both comparisons fail; with
\* dt = 0 the quotient t_closest/dt is +-inf or NaN and the test fails too.
\* dx3 = dx1 + t_closest*dvx1 = dx1 + dx1.
reb_mercurana_predict_rmin2(p1, p2, dt0) ==
    LET dts == IF dt0 < 0 THEN -1 ELSE 1
        dt  == Abs(dt0)
        dx1 == FSub(p1.x, p2.x)
        r1  == FMul(dx1, dx1)
        dvx1 == dts * (p1.vx - p2.vx)
        dx2 == FAdd(dx1, FMul(dt, dvx1))
        r2  == FMul(dx2, dx2)
        num == FMul(dx1, dvx1)
        den == FMul(dvx1, dvx1)
        dx3 == FAdd(dx1, dx1)
        r3  == FMul(dx3, dx3)
        inside == /\ dvx1 # 0
                  /\ dt > 0
                  /\ num >= 0
                  /\ num <= FMul(dt, den)
        rmin2 == MIN(r1, r2)
    IN IF inside THEN MIN(rmin2, r3) ELSE rmin2

reb_mercurana_predict_rmin2_drifted(p1, p2, dt, p2drift) ==
    LET p2drifted == [p2 EXCEPT !.x = FAdd(p2.x, FMul(p2drift, p2.vx))]
    IN reb_mercurana_predict_rmin2(p1, p2drifted, dt)

\* rmin2 < dcritsum*dcritsum
Closer(rmin2, dcritsum) == rmin2 < FMul(dcritsum, dcritsum)

----------------------------------------------------------------------------
(* State                                                                   *)

VARIABLES
    r,        \* struct reb_simulation: N, dt, t, dt_last_done, particles
    rim,      \* r->ri_mercurana
    heap,     \* the blocks behind t_drifted, maxdrift_encounter, maxdrift_dominant
    pc,       \* where the host is: "idle", "part1", "part2"
    stack,    \* the drift and kick calls the operator-splitting driver still has to make
    steps,    \* global steps started so far
    obs,      \* what the last call did (observation, not program state)
    hist      \* what the calls so far did (observation, not program state)

vars == <<r, rim, heap, pc, stack, steps, obs, hist>>

\* the state an operator of the integrator works on
\* (hit counts the updates one call makes to each particle, caught the
\* catch-up time the max-drift phase applies to its position, top is the
\* largest shell index the call uses on a shell-indexed table, post counts
\* the runs of the shell-0 postprocessor; collisions is r->collisions up to
\* collisions_N, recorded counts the collisions recorded, searches the runs
\* of the resolver, reentries the calls predict makes to itself, removals
\* the particles the resolver will still remove, fuel the calls predict may
\* still make to itself before the model stops following it; tested lists
\* the pairs the max-drift phase has put to the drifted predictor, wanted
\* the pairs of a particle over its limit with a member of the shell-0
\* encounter map below the shell, promoted the pairs that led to a promotion,
\* and stored, caughtup, inscan what holds of them when the passes are done;
\* recalculated tells that the call has computed the dcrit table; seen holds
\* the contents of a buffer at an earlier point of the call and framed tells
\* that no write of the call through one of the handles t_drifted,
\* maxdrift_encounter, maxdrift_dominant has changed what another reads)
Mach(rr, ri, hp) ==
    [r |-> rr, rim |-> ri, heap |-> hp,
     hit |-> [i \in PIdx |-> 0], caught |-> [i \in PIdx |-> 0], top |-> -1,
     post |-> 0,
     collisions |-> << >>, recorded |-> 0, searches |-> 0, reentries |-> 0,
     removals |-> 0, fuel |-> MaxN + 1,
     tested |-> << >>, wanted |-> {}, promoted |-> << >>,
     stored |-> TRUE, caughtup |-> TRUE, inscan |-> TRUE,
     recalculated |-> FALSE,
     seen |-> << >>, framed |-> TRUE]

\* indices stored in the first shellN entries of a shell map
MapSet(map, shellN, s) == {map[s][k] : k \in {q \in PIdx : q < shellN[s]}}

----------------------------------------------------------------------------
(* reb_mercurana_encounter_predict                                         *)

\* the locals read at entry: lines 155-158 (and 190-192 at shell 0)
Locals(S, dt, shell) ==
    [shell |-> shell, dt |-> dt,
     shellN_encounter   |-> S.rim.shellN_encounter[shell],
     shellN_dominant    |-> S.rim.shellN_dominant[shell],
     shellN_subdominant |-> S.rim.shellN_subdominant[shell]]

\* lines 179-183
ResetSubShell(S, shell) ==
    [S EXCEPT !.top = MAX(@, shell + 1),
              !.rim.collisions_N = 0,
              !.collisions = << >>,
              !.rim.shellN_encounter[shell + 1] = 0,
              !.rim.shellN_dominant[shell + 1] = 0,
              !.rim.shellN_subdominant[shell + 1] = 0]

\* lines 185-206: the maps of the outermost shell.  The local
\* inshell_subdominant is rim->inshell_dominant (line 170), so line 205
\* writes inshell_dominant again and rim->inshell_subdominant is not written.
Bootstrap(S) ==
    LET Ndom == S.rim.N_dominant
        Nsub == S.r.N - S.rim.N_dominant
    IN [S EXCEPT
          !.rim.shellN_dominant[0] = Ndom,
          !.rim.shellN_subdominant[0] = Nsub,
          !.rim.shellN_encounter[0] = Nsub,
          !.rim.map_dominant[0] =
              [i \in PIdx |-> IF i < Ndom THEN i ELSE S.rim.map_dominant[0][i]],
          !.rim.map_subdominant[0] =
              [i \in PIdx |-> IF i < Nsub /\ Ndom + i \in PIdx THEN Ndom + i
                              ELSE S.rim.map_subdominant[0][i]],
          !.rim.map_encounter[0] =
              [i \in PIdx |-> IF i < Nsub /\ Ndom + i \in PIdx THEN Ndom + i
                              ELSE S.rim.map_encounter[0][i]],
          !.heap = [h \in DOMAIN S.heap |->
                      IF h = S.rim.maxdrift_dominant \/ h = S.rim.maxdrift_encounter
                      THEN [i \in PIdx |-> IF i < S.r.N THEN HUGE ELSE S.heap[h][i]]
                      ELSE S.heap[h]],
          !.rim.inshell_encounter =
              [i \in PIdx |-> IF i < S.r.N THEN 0 ELSE S.rim.inshell_encounter[i]],
          !.rim.inshell_dominant =
              [i \in PIdx |-> IF i < S.r.N THEN 0 ELSE S.rim.inshell_dominant[i]]]

\* maxdrift_X[m] = MIN(maxdrift_X[m], maxdrift) on the block h
MinInto(S, h, m, maxdrift) ==
    [S EXCEPT !.heap[h][m] = MIN(S.heap[h][m], maxdrift)]

\* lines 271-275, 276-280, 301-305: promote a dominant particle to shell+1
PromoteDominant(S, shell, m) ==
    IF S.rim.inshell_dominant[m] = shell
    THEN LET k == S.rim.shellN_dominant[shell + 1]
         IN [S EXCEPT !.rim.inshell_dominant[m] = shell + 1,
                      !.rim.map_dominant[shell + 1][k] = m,
                      !.rim.shellN_dominant[shell + 1] = k + 1]
    ELSE S

\* lines 306-311: inshell_subdominant is the alias of rim->inshell_dominant
PromoteSubdominant(S, shell, m) ==
    IF S.rim.inshell_dominant[m] = shell
    THEN LET k == S.rim.shellN_subdominant[shell + 1]
         IN [S EXCEPT !.rim.inshell_dominant[m] = shell + 1,
                      !.rim.map_subdominant[shell + 1][k] = m,
                      !.rim.shellN_subdominant[shell + 1] = k + 1]
    ELSE S

\* lines 332-341
PromoteEncounter(S, shell, m) ==
    IF S.rim.inshell_encounter[m] = shell
    THEN LET k == S.rim.shellN_encounter[shell + 1]
         IN [S EXCEPT !.rim.inshell_encounter[m] = shell + 1,
                      !.rim.map_encounter[shell + 1][k] = m,
                      !.rim.shellN_encounter[shell + 1] = k + 1]
    ELSE S

\* lines 124-145: reb_mercurana_record_collision
reb_mercurana_record_collision(S, i, j) ==
    [S EXCEPT !.collisions = Append(@, [p1 |-> i, p2 |-> j]),
              !.rim.collisions_N = @ + 1,
              !.recorded = @ + 1]

\* rmin2 < rsum*rsum
Touches(rmin2, p1, p2) == rmin2 < FMul(FAdd(p1.r, p2.r), FAdd(p1.r, p2.r))

\* lines 265-268, 296-299, 327-330
CollisionCheck(S, rmin2, mi, mj) ==
    IF /\ Touches(rmin2, S.r.particles[mi], S.r.particles[mj])
       /\ S.r.collision = "REB_COLLISION_DIRECT"
    THEN reb_mercurana_record_collision(S, mi, mj)
    ELSE S

\* one pair of pass (1), lines 263-285
DomDomPair(S, L, i, j) ==
    LET mi == S.rim.map_dominant[L.shell][i]
        mj == S.rim.map_dominant[L.shell][j]
        rmin2 == reb_mercurana_predict_rmin2(S.r.particles[mi], S.r.particles[mj], L.dt)
        dcritsum == FAdd(S.rim.dcrit[L.shell][mi], S.rim.dcrit[L.shell][mj])
        maxdrift == FHalf(FSub(sqrt(rmin2), dcritsum))
        T == CollisionCheck(S, rmin2, mi, mj)
    IN IF Closer(rmin2, dcritsum)
       THEN PromoteDominant(PromoteDominant(T, L.shell, mi), L.shell, mj)
       ELSE MinInto(MinInto(T, S.rim.maxdrift_dominant, mi, maxdrift),
                    S.rim.maxdrift_dominant, mj, maxdrift)

\* one pair of pass (2), lines 293-316
DomSubPair(S, L, i, j) ==
    LET mi == S.rim.map_dominant[L.shell][i]
        mj == S.rim.map_subdominant[L.shell][j]
        rmin2 == reb_mercurana_predict_rmin2(S.r.particles[mi], S.r.particles[mj], L.dt)
        dcritsum == FAdd(S.rim.dcrit[L.shell][mi], S.rim.dcrit[L.shell][mj])
        maxdrift == FHalf(FSub(sqrt(rmin2), dcritsum))
        T == CollisionCheck(S, rmin2, mi, mj)
    IN IF Closer(rmin2, dcritsum)
       THEN PromoteSubdominant(PromoteDominant(T, L.shell, mi), L.shell, mj)
       ELSE MinInto(MinInto(T, S.rim.maxdrift_dominant, mi, maxdrift),
                    S.rim.maxdrift_dominant, mj, maxdrift)

\* one pair of pass (4), lines 324-346
EncEncPair(S, L, i, j) ==
    LET mi == S.rim.map_encounter[L.shell][i]
        mj == S.rim.map_encounter[L.shell][j]
        rmin2 == reb_mercurana_predict_rmin2(S.r.particles[mi], S.r.particles[mj], L.dt)
        dcritsum == FAdd(S.rim.dcrit[L.shell][mi], S.rim.dcrit[L.shell][mj])
        maxdrift == FHalf(FSub(sqrt(rmin2), dcritsum))
        T == CollisionCheck(S, rmin2, mi, mj)
    IN IF Closer(rmin2, dcritsum)
       THEN PromoteEncounter(PromoteEncounter(T, L.shell, mi), L.shell, mj)
       ELSE MinInto(MinInto(T, S.rim.maxdrift_encounter, mi, maxdrift),
                    S.rim.maxdrift_encounter, mj, maxdrift)

\* lines 260-287: for i, for j = i+1
RECURSIVE DomDomLoop(_, _, _, _)
DomDomLoop(S, L, i, j) ==
    IF i >= L.shellN_dominant THEN S
    ELSE IF j >= L.shellN_dominant THEN DomDomLoop(S, L, i + 1, i + 2)
    ELSE DomDomLoop(DomDomPair(S, L, i, j), L, i, j + 1)

\* lines 290-318: for i, for j = 0
RECURSIVE DomSubLoop(_, _, _, _)
DomSubLoop(S, L, i, j) ==
    IF i >= L.shellN_dominant THEN S
    ELSE IF j >= L.shellN_subdominant THEN DomSubLoop(S, L, i + 1, 0)
    ELSE DomSubLoop(DomSubPair(S, L, i, j), L, i, j + 1)

\* lines 321-348: for i, for j = i+1
RECURSIVE EncEncLoop(_, _, _, _)
EncEncLoop(S, L, i, j) ==
    IF i >= L.shellN_encounter THEN S
    ELSE IF j >= L.shellN_encounter THEN EncEncLoop(S, L, i + 1, i + 2)
    ELSE EncEncLoop(EncEncPair(S, L, i, j), L, i, j + 1)

\* lines 240-243: add mj to shells 1..shell as encounter
RECURSIVE AppendToShells(_, _, _, _)
AppendToShells(S, mj, s, shell) ==
    IF s > shell THEN S
    ELSE LET k == S.rim.shellN_encounter[s]
         IN AppendToShells([S EXCEPT !.top = MAX(@, s),
                                     !.rim.map_encounter[s][k] = mj,
                                     !.rim.shellN_encounter[s] = k + 1],
                           mj, s + 1, shell)

\* lines 231-253: one j of the re-scan.  map_encounter is the row of the
\* current shell (line 160), read up to shellN_encounter[0] entries.
MaxDriftPair(S, L, mi, j) ==
    LET mj == S.rim.map_encounter[L.shell][j]
        drift == FSub(S.heap[S.rim.t_drifted][mi], S.heap[S.rim.t_drifted][mj])
        rmin2 == reb_mercurana_predict_rmin2_drifted(
                     S.r.particles[mi], S.r.particles[mj], L.dt, drift)
        dcritsum == FAdd(S.rim.dcrit[L.shell][mi], S.rim.dcrit[L.shell][mj])
        maxdrift == FHalf(FSub(sqrt(rmin2), dcritsum))
        T == [S EXCEPT !.tested = Append(@, <<mi, mj>>)]
    IN IF S.rim.inshell_encounter[mj] < L.shell
       THEN IF Closer(rmin2, dcritsum)
            THEN LET S1 == AppendToShells(
                               [T EXCEPT !.rim.inshell_encounter[mj] = L.shell],
                               mj, 1, L.shell)
                 IN [S1 EXCEPT !.r.particles[mj].x =
                                   FAdd(@, FMul(drift, S.r.particles[mj].vx)),
                               !.caught[mj] = FAdd(@, drift),
                               !.promoted = Append(@, [i |-> mi, j |-> mj,
                                                       drift |-> drift])]
            ELSE MinInto(T, S.rim.maxdrift_dominant, mi, maxdrift)
       ELSE S

RECURSIVE MaxDriftInner(_, _, _, _)
MaxDriftInner(S, L, mi, j) ==
    IF j >= S.rim.shellN_encounter[0] THEN S
    ELSE MaxDriftInner(MaxDriftPair(S, L, mi, j), L, mi, j + 1)

\* particle mi has drifted beyond its limit (line 229): the members of the
\* shell-0 encounter map that are not yet in the shell
OverLimit(S, L, mi) ==
    [S EXCEPT !.wanted = @ \cup
        {<<mi, m>> : m \in {q \in MapSet(S.rim.map_encounter, S.rim.shellN_encounter, 0) :
                               S.rim.inshell_encounter[q] < L.shell}}]

\* lines 222-256
RECURSIVE MaxDriftLoop(_, _, _)
MaxDriftLoop(S, L, i) ==
    IF i >= L.shellN_encounter THEN S
    ELSE LET mi == S.rim.map_encounter[L.shell][i]
             dx == FSub(S.r.particles[mi].x, S.rim.p0[mi].x)
             drift == sqrt(FMul(dx, dx))
         IN IF drift > S.heap[S.rim.maxdrift_encounter][mi]
            THEN MaxDriftLoop(MaxDriftInner(OverLimit(S, L, mi), L, mi, 0), L, i + 1)
            ELSE MaxDriftLoop(S, L, i + 1)

\* lines 260-348: the passes (1), (2) and (4)
Passes(S, L) ==
    EncEncLoop(DomSubLoop(DomDomLoop(S, L, 0, 1), L, 0, 0), L, 0, 1)

\* shell 0: the counts are read again after the bootstrap (lines 190-192)
PassesAtZero(S, dt) == Passes(S, Locals(S, dt, 0))

\* what holds of the promotions of the max-drift phase when the passes are
\* done: the promoted particle is in the encounter maps of the shells
\* 1 .. shell and at least in the shell, its t_drifted is that of the particle
\* it was promoted for, and it is among the particles pass (4) went through
AfterPasses(S, L) ==
    LET P == {S.promoted[k] : k \in DOMAIN S.promoted}
    IN [S EXCEPT
          !.stored = \A pr \in P :
              /\ S.rim.inshell_encounter[pr.j] >= L.shell
              /\ \A s \in 1 .. L.shell :
                     pr.j \in MapSet(S.rim.map_encounter, S.rim.shellN_encounter, s),
          !.caughtup = \A pr \in P :
              S.heap[S.rim.t_drifted][pr.j] = S.heap[S.rim.t_drifted][pr.i],
          !.inscan = \A pr \in P :
              \E k \in PIdx : k < L.shellN_encounter
                               /\ S.rim.map_encounter[L.shell][k] = pr.j]

\* shell > 0: the max-drift phase, then the passes, with the counts of entry
PassesBelow(S, L) == AfterPasses(Passes(MaxDriftLoop(S, L, 0), L), L)

\* the array of particles after reb_remove(r, k, 1): the particles above k
\* move down by one
RemoveParticle(particles, N, k) ==
    [i \in PIdx |-> IF i >= k /\ i + 1 < N THEN particles[i + 1] ELSE particles[i]]

\* the recorded collisions between two particles that exist
ValidCollisions(S) ==
    {k \in DOMAIN S.collisions :
        S.collisions[k].p1 < S.r.N /\ S.collisions[k].p2 < S.r.N}

\* reb_collision_search on the collisions recorded: the resolver removes
\* the second particle of the first collision between existing particles
\* while it has removals left, and leaves the particles as they are otherwise
reb_collision_search(S) ==
    IF S.removals > 0 /\ ValidCollisions(S) # {}
    THEN LET k == CHOOSE q \in ValidCollisions(S) :
                      \A q2 \in ValidCollisions(S) : q <= q2
         IN [S EXCEPT !.searches = @ + 1,
                      !.removals = @ - 1,
                      !.r.particles = RemoveParticle(@, S.r.N, S.collisions[k].p2),
                      !.r.N = @ - 1]
    ELSE [S EXCEPT !.searches = @ + 1]

\* line 356 with the test left out: predict calls itself after every run of
\* the resolver
ReentersAlways(N_before, S) == TRUE

\* line 356: if (N_before != r->N)
Reenters(N_before, S) == N_before # S.r.N

RECURSIVE reb_mercurana_encounter_predict(_, _, _)

\* lines 356-360, after reb_collision_search
Resolved(N_before, S, dt, shell) ==
    IF Reenters(N_before, S) /\ S.fuel > 0
    THEN [reb_mercurana_encounter_predict(
              [S EXCEPT !.reentries = @ + 1, !.fuel = @ - 1], dt, shell)
            EXCEPT !.rim.collisions_N = 0]
    ELSE [S EXCEPT !.rim.collisions_N = 0]

\* lines 353-361
Collisions(S, dt, shell) ==
    IF S.rim.collisions_N # 0
    THEN Resolved(S.r.N, reb_collision_search(S), dt, shell)
    ELSE S

\* lines 151-362
reb_mercurana_encounter_predict(S, dt, shell) ==
    IF shell + 1 >= S.rim.Nmaxshells THEN S
    ELSE IF shell = 0
         THEN Collisions(PassesAtZero(Bootstrap(ResetSubShell(S, shell)), dt), dt, shell)
    ELSE Collisions(PassesBelow(ResetSubShell(S, shell), Locals(S, dt, shell)), dt, shell)

----------------------------------------------------------------------------
(* The host's gravity routine and the operator-splitting driver            *)

\* reb_update_acceleration: every particle is pulled towards the side on
\* which more of the other particles lie
Gravity(particles, N, i) ==
    LET right == Cardinality({j \in PIdx : j < N /\ particles[j].x > particles[i].x})
        left  == Cardinality({j \in PIdx : j < N /\ particles[j].x < particles[i].x})
    IN 2 * Sgn(right - left)

reb_update_acceleration(S) ==
    [S EXCEPT !.r.particles =
        [i \in PIdx |-> IF i < S.r.N
                        THEN [S.r.particles[i] EXCEPT !.ax = Gravity(S.r.particles, S.r.N, i)]
                        ELSE S.r.particles[i]]]

\* reb_integrator_eos_step with REB_EOS_LF: drift dt/2, kick dt, drift dt/2
reb_integrator_eos_step(dt, shell) ==
    << [op |-> "D", shell |-> shell, a |-> dt \div 2],
       [op |-> "K", shell |-> shell, a |-> dt],
       [op |-> "D", shell |-> shell, a |-> dt \div 2] >>

\* the pre- and post-processor of REB_EOS_LF make no call
reb_integrator_eos_preprocessor(dt, shell) == << >>

reb_integrator_eos_postprocessor(dt, shell) == << >>

RECURSIVE Repeat(_, _)
Repeat(ops, n) == IF n <= 0 THEN << >> ELSE ops \o Repeat(ops, n - 1)

----------------------------------------------------------------------------
(* reb_integrator_mercurana_interaction_step                               *)

\* particles[mi].vx += y*particles[mi].ax
KickOne(S, y, mi) ==
    [S EXCEPT !.r.particles[mi].vx = FAdd(@, FMul(y, S.r.particles[mi].ax)),
              !.hit[mi] = @ + 1]

\* lines 386-392 and 393-399: every entry of the row
RECURSIVE KickLoop(_, _, _, _, _)
KickLoop(S, y, row, n, i) ==
    IF i >= n THEN S
    ELSE KickLoop(KickOne(S, y, row[i]), y, row, n, i + 1)

\* lines 401-409
RECURSIVE KickSubLoop(_, _, _, _)
KickSubLoop(S, y, shell, i) ==
    IF i >= S.rim.shellN_subdominant[shell] THEN S
    ELSE LET mi == S.rim.map_subdominant[shell][i]
         IN KickSubLoop(IF S.rim.inshell_encounter[mi] < shell
                        THEN KickOne(S, y, mi) ELSE S,
                        y, shell, i + 1)

\* lines 367-411, v = 0 (no jerk in REB_EOS_LF)
reb_integrator_mercurana_interaction_step(S, y, shell) ==
    LET S0 == reb_update_acceleration(
                  [S EXCEPT !.rim.current_shell = shell, !.top = MAX(@, shell)])
        S1 == KickLoop(S0, y, S0.rim.map_dominant[shell],
                       S0.rim.shellN_dominant[shell], 0)
        S2 == KickLoop(S1, y, S1.rim.map_encounter[shell],
                       S1.rim.shellN_encounter[shell], 0)
    IN IF shell > 0 THEN KickSubLoop(S2, y, shell, 0) ELSE S2

----------------------------------------------------------------------------
(* reb_integrator_mercurana_drift_step                                     *)

\* lines 435-438, 444-447, 453-456
DriftOne(S, a, mi) ==
    [S EXCEPT !.r.particles[mi].x = FAdd(@, FMul(a, S.r.particles[mi].vx)),
              !.heap[S.rim.t_drifted][mi] = FAdd(@, a),
              !.hit[mi] = @ + 1]

\* lines 432-440
RECURSIVE DriftDomLoop(_, _, _, _)
DriftDomLoop(S, a, shell, i) ==
    IF i >= S.rim.shellN_dominant[shell] THEN S
    ELSE LET mi == S.rim.map_dominant[shell][i]
         IN DriftDomLoop(IF S.rim.inshell_dominant[mi] = shell
                         THEN DriftOne(S, a, mi) ELSE S,
                         a, shell, i + 1)

\* lines 441-449; inshell_subdominant is rim->inshell_dominant (line 429)
RECURSIVE DriftSubLoop(_, _, _, _)
DriftSubLoop(S, a, shell, i) ==
    IF i >= S.rim.shellN_subdominant[shell] THEN S
    ELSE LET mi == S.rim.map_subdominant[shell][i]
         IN DriftSubLoop(IF /\ S.rim.inshell_dominant[mi] = shell
                            /\ S.rim.inshell_encounter[mi] <= shell
                         THEN DriftOne(S, a, mi) ELSE S,
                         a, shell, i + 1)

\* lines 450-458
RECURSIVE DriftEncLoop(_, _, _, _)
DriftEncLoop(S, a, shell, i) ==
    IF i >= S.rim.shellN_encounter[shell] THEN S
    ELSE LET mi == S.rim.map_encounter[shell][i]
         IN DriftEncLoop(IF /\ S.rim.inshell_dominant[mi] < shell
                            /\ S.rim.inshell_encounter[mi] = shell
                         THEN DriftOne(S, a, mi) ELSE S,
                         a, shell, i + 1)

\* line 459-462: does the sub-shell exist and hold particles?
Descends(S, shell) ==
    /\ shell + 1 < S.rim.Nmaxshells
    /\ \/ S.rim.shellN_encounter[shell + 1] > 0
       \/ S.rim.shellN_dominant[shell + 1] > 0

\* lines 465-468
SubSteps(S, shell) ==
    IF S.rim.n0 > 0 /\ shell = 0 THEN S.rim.n0
    ELSE IF S.rim.n1 # 0 THEN S.rim.n1 ELSE S.rim.n0

\* lines 469-474: the calls the driver makes at shell+1
SubShellCalls(S, a, shell) ==
    LET n == SubSteps(S, shell)
        as == IF n = 0 THEN HUGE ELSE a \div n
    IN reb_integrator_eos_preprocessor(as, shell + 1)
       \o Repeat(reb_integrator_eos_step(as, shell + 1), n)
       \o reb_integrator_eos_postprocessor(as, shell + 1)

\* lines 432-458: the three loops
DriftLoops(S, a, shell) ==
    DriftEncLoop(DriftSubLoop(DriftDomLoop(S, a, shell, 0), a, shell, 0), a, shell, 0)

\* lines 459-480 without the calls of the driver: Nmaxshellsused or the clock
DriftEnd(S, a, shell) ==
    IF Descends(S, shell)
    THEN [S EXCEPT !.rim.Nmaxshellsused = MAX(@, shell + 2),
                   !.top = MAX(@, shell + 1)]
    ELSE [S EXCEPT !.r.t = @ + a]

\* what t_drifted reads when drift_step is entered
AtEntry(S) == [S EXCEPT !.seen = <<S.heap[S.rim.t_drifted]>>]

\* predict has returned: its writes through maxdrift_encounter and
\* maxdrift_dominant (lines 200-201, 343-346) have left t_drifted alone
AfterPredictWrites(S) ==
    [S EXCEPT !.framed = @ /\ S.heap[S.rim.t_drifted] = S.seen[1],
              !.seen = <<S.heap[S.rim.maxdrift_encounter],
                         S.heap[S.rim.maxdrift_dominant]>>]

\* the three loops have run: their writes through t_drifted (lines 437, 446,
\* 455) have left maxdrift_encounter and maxdrift_dominant alone
AfterDriftWrites(S) ==
    [S EXCEPT !.framed = /\ @
                         /\ S.heap[S.rim.maxdrift_encounter] = S.seen[1]
                         /\ S.heap[S.rim.maxdrift_dominant] = S.seen[2]]

\* lines 414-481 up to the recursion (a build without OPENMP): the test of
\* reb_sigint, then predict, the three loops, then Nmaxshellsused or the clock
reb_integrator_mercurana_drift_step(S, a, shell) ==
    IF S.r.sigint # 0 THEN S
    ELSE DriftEnd(AfterDriftWrites(DriftLoops(AfterPredictWrites(
                      reb_mercurana_encounter_predict(
                          AtEntry([S EXCEPT !.top = MAX(@, shell)]), a, shell)),
                      a, shell)),
                  a, shell)

----------------------------------------------------------------------------
(* reb_integrator_mercurana_part1                                          *)

\* the checks of lines 490-505 with the n1 check made for Nmaxshells <= 2
ConfigErrorLoose(ri) ==
    IF ri.Nmaxshells <= 0 THEN "Nmaxshells needs to be larger than 0."
    ELSE IF ri.Nmaxshells = 1 /\ ri.n0 # 0
         THEN "Nmaxshells>=2 is required if n0 is greater than 0."
    ELSE IF ri.Nmaxshells <= 2 /\ ri.n1 # 0
         THEN "Nmaxshells>=3 is required if n1 is greater than 0."
    ELSE IF ri.Nmaxshells > 1 /\ ri.kappa <= 0
         THEN "kappa>0 is required if Nmaxshells>1."
    ELSE "none"

\* lines 490-505: the configuration errors, in the order of the code
ConfigError(ri) ==
    IF ri.Nmaxshells <= 0 THEN "Nmaxshells needs to be larger than 0."
    ELSE IF ri.Nmaxshells = 1 /\ ri.n0 # 0
         THEN "Nmaxshells>=2 is required if n0 is greater than 0."
    ELSE IF ri.Nmaxshells = 2 /\ ri.n1 # 0
         THEN "Nmaxshells>=3 is required if n1 is greater than 0."
    ELSE IF ri.Nmaxshells > 1 /\ ri.kappa <= 0
         THEN "kappa>0 is required if Nmaxshells>1."
    ELSE "none"

\* sqrt3: the cube root, exact on the cubes the masses of the model give
sqrt3(a) == CHOOSE x \in 0 .. 64 : x * x * x = a

\* lines 616-621: the sub-step count that divides dt_shell after shell s
DcritSubSteps(ri, s) == IF s > 0 /\ ri.n1 # 0 THEN ri.n1 ELSE ri.n0

\* enum REB_EOS_TYPE: the schemes of the operator-splitting driver
Schemes ==
    { "REB_EOS_LF", "REB_EOS_LF4", "REB_EOS_LF6", "REB_EOS_LF8", "REB_EOS_LF4_2",
      "REB_EOS_LF8_6_4", "REB_EOS_PMLF4", "REB_EOS_PMLF6", "REB_EOS_PLF7_6_4" }

\* lines 587 and 592: the literal 0.5, which belongs to no table
Half == [table |-> "literal", term |-> "0.5"]

\* lines 587-614: the expression whose value longest_drift_step_in_shell has
\* after the switch.  The case REB_EOS_LF8_6_4 (line 606) assigns
\* reb_eos_lf8_6_4_a[2] at line 607 and has no break, so the assignment of
\* the case REB_EOS_PMLF6 (line 609) follows and overwrites it.
LongestDriftStep(phi) ==
    CASE phi \in {"REB_EOS_LF", "REB_EOS_PMLF4"} -> Half
      [] phi = "REB_EOS_LF4" -> [table |-> "reb_eos_lf4_a", term |-> "a"]
      [] phi = "REB_EOS_LF6" -> [table |-> "reb_eos_lf6_a", term |-> "a[0]+a[1]"]
      [] phi = "REB_EOS_LF8" -> [table |-> "reb_eos_lf8_a", term |-> "a[0]+a[1]"]
      [] phi = "REB_EOS_LF4_2" -> [table |-> "reb_eos_lf4_2_a", term |-> "1.-2.*a"]
      [] phi \in {"REB_EOS_LF8_6_4", "REB_EOS_PMLF6"} ->
             [table |-> "reb_eos_pmlf6_a", term |-> "a[1]"]
      [] phi = "REB_EOS_PLF7_6_4" -> [table |-> "reb_eos_plf7_6_4_a", term |-> "a[0]"]
      [] OTHER -> Half

\* line 588: the scheme of shell s
PhiOf(ri, s) == IF s = 0 THEN ri.phi0 ELSE ri.phi1

\* lines 563-622: dt_shell when the loop reaches shell s, as the factors that
\* were applied to dt0: one coefficient (line 615) and one sub-step count
\* (line 621) for every shell above s
RECURSIVE DtShell(_, _)
DtShell(ri, s) ==
    IF s = 0 THEN << >>
    ELSE Append(DtShell(ri, s - 1),
                [coefficient |-> LongestDriftStep(PhiOf(ri, s - 1)),
                 n |-> DcritSubSteps(ri, s - 1)])

\* every coefficient applied above shell s is the literal 0.5
HalvesOnly(ri, s) ==
    \A k \in 1 .. Len(DtShell(ri, s)) : DtShell(ri, s)[k].coefficient = Half

\* dt0/dt_shell at shell s (lines 563-621) when every coefficient is 0.5;
\* 0 stands for dt_shell = inf after a division by n = 0
RECURSIVE DtShellDen(_, _)
DtShellDen(ri, s) ==
    IF s = 0 THEN 1
    ELSE LET d == DtShellDen(ri, s - 1)
             n == DcritSubSteps(ri, s - 1)
         IN d * 2 * n

\* lines 567-578 with alpha = 0.5, Gm0r0 = 0 and G*dt0*dt0 = 512:
\* dcrit[s][i] = sqrt(dt_shell/dt0) * sqrt3(G*dt0*dt0*mi/kappa).
\* With kappa <= 0 the value is not a number; it is computed only when
\* Nmaxshells = 1, where predict never reads it.
Dcrit(ri, s, m) ==
    LET den == DtShellDen(ri, s)
        dgrav == sqrt3((512 * m) \div ri.kappa)
    IN IF ri.kappa <= 0 \/ den = 0 THEN HUGE
       ELSE dgrav \div sqrt(den)

\* The blocks t_drifted, maxdrift_encounter and maxdrift_dominant name after
\* lines 545-547, where the second and third realloc are both given
\* rim->t_drifted: in place all three name block 1; a realloc that moves
\* leaves the earlier handles on the old block.
Layouts ==
    { [t_drifted |-> 1, maxdrift_encounter |-> 1, maxdrift_dominant |-> 1],
      [t_drifted |-> 1, maxdrift_encounter |-> 2, maxdrift_dominant |-> 3],
      [t_drifted |-> 1, maxdrift_encounter |-> 1, maxdrift_dominant |-> 3],
      [t_drifted |-> 1, maxdrift_encounter |-> 2, maxdrift_dominant |-> 1] }

\* what a word of newly allocated memory may read as
FillValues == {0, 1}

\* lines 509-555: the tables are allocated with Nmaxshells rows of N entries;
\* malloc'ed rows hold fill, realloc'ed arrays keep their first allocatedN
\* entries
Allocate(S, layout, fill) ==
    LET old == S.rim.allocatedN
        keep(arr) == [i \in PIdx |-> IF i < old THEN arr[i] ELSE fill]
        keepRows(arr) == [s \in Shells |-> IF old > 0 /\ s < S.rim.rows THEN arr[s] ELSE fill]
        fresh == [s \in Shells |-> [i \in PIdx |-> fill]]
    IN [S EXCEPT
          !.rim.dcrit = fresh,
          !.rim.map_encounter = fresh,
          !.rim.map_dominant = fresh,
          !.rim.map_subdominant = fresh,
          !.rim.inshell_encounter = keep(@),
          !.rim.inshell_dominant = keep(@),
          !.rim.inshell_subdominant = keep(@),
          !.rim.shellN_encounter = keepRows(@),
          !.rim.shellN_dominant = keepRows(@),
          !.rim.shellN_subdominant = keepRows(@),
          !.rim.t_drifted = layout.t_drifted,
          !.rim.maxdrift_encounter = layout.maxdrift_encounter,
          !.rim.maxdrift_dominant = layout.maxdrift_dominant,
          !.heap = [h \in DOMAIN S.heap |-> keep(S.heap[h])],
          !.rim.rows = S.rim.Nmaxshells,
          !.rim.allocatedN = S.r.N,
          !.rim.recalculate_dcrit_this_timestep = 1]

\* lines 679-690 with the postprocessor run in every call
SynchronizeAlways(S) ==
    [S EXCEPT !.rim.is_synchronized = 1, !.post = @ + 1]

\* lines 679-690: reb_integrator_mercurana_synchronize
reb_integrator_mercurana_synchronize(S) ==
    IF S.rim.is_synchronized = 0
    THEN [S EXCEPT !.rim.is_synchronized = 1, !.post = @ + 1]
    ELSE S

\* lines 563-627: the critical radii of every shell.  dt_shell keeps, for
\* every shell, the factors of the dt_shell its row was computed with.  The
\* values of the coefficient tables belong to the driver, so the numbers of a
\* row under a coefficient other than 0.5 are not followed.
DcritTable(S) ==
    [S EXCEPT
       !.recalculated = TRUE,
       !.rim.recalculate_dcrit_this_timestep = 0,
       !.rim.dt_shell = [s \in Shells |->
                           IF s < S.rim.Nmaxshells THEN DtShell(S.rim, s) ELSE @[s]],
       !.rim.dcrit = [s \in Shells |->
                        IF s < S.rim.Nmaxshells /\ HalvesOnly(S.rim, s)
                        THEN [i \in PIdx |-> IF i < S.r.N
                                             THEN Dcrit(S.rim, s, S.r.particles[i].m)
                                             ELSE S.rim.dcrit[s][i]]
                        ELSE S.rim.dcrit[s]]]

\* lines 557-627: synchronize first when the step before left the state
\* unsynchronized (lines 559-562)
RecalculateDcrit(S) == DcritTable(reb_integrator_mercurana_synchronize(S))

\* lines 485-645
reb_integrator_mercurana_part1(S, layout, fill) ==
    IF ConfigError(S.rim) # "none" THEN S
    ELSE LET S1 == IF S.rim.allocatedN < S.r.N THEN Allocate(S, layout, fill) ELSE S
         IN IF S1.rim.recalculate_dcrit_this_timestep # 0 THEN RecalculateDcrit(S1) ELSE S1

----------------------------------------------------------------------------
(* Initial state: the integrator as reset leaves it, configured by the host *)

Zero == [i \in PIdx |-> 0]

\* particles 0 .. N-1 on the x axis; the rest of the array is unused
NoParticle == [x |-> 0, vx |-> 0, ax |-> 0, m |-> 1, r |-> 0]

\* lines 715-743, with the configuration the host then sets
ResetState(cfg) ==
    [allocatedN |-> 0, rows |-> 0,
     map_encounter |-> [s \in Shells |-> Zero],
     map_dominant |-> [s \in Shells |-> Zero],
     map_subdominant |-> [s \in Shells |-> Zero],
     dcrit |-> [s \in Shells |-> Zero],
     dt_shell |-> [s \in Shells |-> << >>],
     phi0 |-> "REB_EOS_LF", phi1 |-> "REB_EOS_LF",
     inshell_encounter |-> Zero, inshell_dominant |-> Zero,
     inshell_subdominant |-> Zero,
     shellN_encounter |-> [s \in Shells |-> 0],
     shellN_dominant |-> [s \in Shells |-> 0],
     shellN_subdominant |-> [s \in Shells |-> 0],
     p0 |-> [i \in PIdx |-> NoParticle],
     t_drifted |-> NULL, maxdrift_encounter |-> NULL, maxdrift_dominant |-> NULL,
     n0 |-> cfg.n0, n1 |-> cfg.n1, kappa |-> cfg.kappa,
     Nmaxshells |-> cfg.Nmaxshells, N_dominant |-> cfg.N_dominant,
     safe_mode |-> 1, Nmaxshellsused |-> 1,
     recalculate_dcrit_this_timestep |-> 0, is_synchronized |-> 1,
     collisions_N |-> 0, current_shell |-> 0]

NoObs ==
    [op |-> "none", shell |-> 0, a |-> 0, hit |-> Zero, members |-> {},
     adv |-> Zero, done |-> FALSE, err |-> "none",
     pre |-> FALSE,      \* the call ran the shell-0 preprocessor
     post |-> 0,         \* runs of the shell-0 postprocessor in the call
     sync |-> 1,         \* is_synchronized when the call was entered
     count |-> 0,        \* calls of synchronize in a row, this one included
     first |-> 0,        \* runs of the postprocessor in the first call of the row
     same |-> FALSE,     \* the call left r, rim and the heap as they were
     frees |-> << >>,    \* the blocks the call passed to free, in order
     rows |-> -1,        \* rows of each shell table the call freed (-1: none)
     had |-> 0,          \* rows the shell tables had when the call was entered
     due |-> FALSE,      \* a pair of the shell maps was predicted to touch at entry
     recorded |-> 0,     \* collisions the call recorded
     searches |-> 0,     \* runs of the collision resolver in the call
     reentries |-> 0,    \* calls of predict to itself in the call
     fuel |-> 0,         \* calls predict could still have made to itself
     N |-> 0,            \* r->N when the call was entered
     tested |-> << >>,   \* pairs the max-drift phase put to the drifted predictor
     wanted |-> {},      \* pairs of a particle over its limit and a shell-0 member below the shell
     promoted |-> << >>, \* pairs that led the max-drift phase to promote
     stored |-> TRUE,    \* the promoted are in the maps of shells 1 .. shell
     caughtup |-> TRUE,  \* the promoted have the t_drifted of their partner
     inscan |-> TRUE,    \* the promoted went through pass (4) of the call
     clock |-> 0,        \* what the call added to the clock r->t
     flag |-> 0,         \* recalculate_dcrit_this_timestep when the call was entered
     recalculated |-> FALSE, \* the call computed the dcrit table
     rmin2 |-> 0,        \* what the predictor returned
     framed |-> TRUE]    \* no write of the call through t_drifted or a maxdrift
                         \* handle changed what another of the three reads

NoHist ==
    [moved |-> Zero,                       \* drift time applied to each position in this step
     pre |-> [i \in PIdx |-> NoParticle],  \* the particles when part1 was entered
     pre_t |-> 0,                          \* the clock when part1 was entered
     err |-> "none",                       \* what part1 of this step reported
     ran |-> FALSE,                        \* part2 of this step went past its guard
     driver |-> -1,                        \* deepest shell the driver was invoked at
     top |-> -1,                           \* largest shell index used on a table in this step
     maxSmax |-> 0,                        \* largest Nmaxshells a step has run with
     npre |-> 0,                           \* runs of the shell-0 preprocessor since reset
     npost |-> 0,                          \* runs of the shell-0 postprocessor since reset
     last |-> "none",                      \* which of the two ran last
     alt |-> TRUE,                         \* the two have alternated, preprocessor first
     atint |-> [i \in PIdx |-> NoParticle], \* the particles when reb_sigint was set
     dcritN |-> 0,                         \* r->N when the dcrit table was last computed
     dcritPar |-> << >>]                   \* the parameters it was last computed with

InitWith(N, ps, cfg) ==
    /\ r = [N |-> N, dt |-> 32, t |-> 0, dt_last_done |-> 0,
            collision |-> "REB_COLLISION_NONE", sigint |-> 0,
            particles |-> [i \in PIdx |-> IF i < N THEN ps[i] ELSE NoParticle]]
    /\ rim = ResetState(cfg)
    /\ heap = [h \in 1 .. 3 |-> Zero]
    /\ pc = "idle"
    /\ stack = << >>
    /\ steps = 0
    /\ obs = NoObs
    /\ hist = NoHist

----------------------------------------------------------------------------
(* The calls of a global step                                              *)

\* the history after the shell-0 preprocessor has run
AfterPre(h) ==
    [h EXCEPT !.npre = @ + 1, !.last = "pre",
              !.alt = @ /\ h.last # "pre"]

\* the history after the shell-0 postprocessor has run n times (n <= 1)
AfterPost(h, n) ==
    IF n = 0 THEN h
    ELSE [h EXCEPT !.npost = @ + n, !.last = "post",
                   !.alt = @ /\ h.last = "pre" /\ n = 1]

Call(op, shell, a) ==
    [op |-> op, shell |-> shell, a |-> a, members |-> {}, base |-> Zero,
     t0 |-> 0]

\* the parameters of the model that enter the dcrit table (lines 563-621):
\* dt, kappa, n0, n1, phi0, phi1 (Gm0r0 = 0 and alpha = 0.5 throughout)
DcritParameters(rr, ri) == <<rr.dt, ri.kappa, ri.n0, ri.n1, ri.phi0, ri.phi1>>

\* part1 as reb_step calls it
Part1 ==
    /\ pc = "idle"
    /\ steps < MaxSteps
    /\ \E layout \in Layouts, fill \in FillValues :
          LET alloc == ConfigError(rim) = "none" /\ rim.allocatedN < r.N
              S == reb_integrator_mercurana_part1(Mach(r, rim, heap), layout, fill)
          IN /\ alloc \/ (layout.maxdrift_encounter = 1 /\ layout.maxdrift_dominant = 1 /\ fill = 0)
             /\ r' = S.r
             /\ rim' = S.rim
             /\ heap' = S.heap
             /\ obs' = [NoObs EXCEPT !.op = "part1", !.err = ConfigError(rim),
                                     !.sync = rim.is_synchronized,
                                     !.post = S.post,
                                     !.flag = rim.recalculate_dcrit_this_timestep,
                                     !.recalculated = S.recalculated,
                                     !.rows = IF alloc /\ rim.rows > 0
                                              THEN rim.Nmaxshells ELSE -1,
                                     !.had = rim.rows]
             /\ hist' = [AfterPost(hist, S.post)
                           EXCEPT !.pre = r.particles, !.pre_t = r.t,
                                  !.err = ConfigError(rim), !.ran = FALSE,
                                  !.moved = Zero, !.top = -1,
                                  !.dcritN = IF S.recalculated THEN r.N ELSE @,
                                  !.dcritPar = IF S.recalculated
                                               THEN DcritParameters(r, rim) ELSE @]
    /\ pc' = "part1"
    /\ steps' = steps + 1
    /\ UNCHANGED stack

\* the preprocessor that runs whenever part2 passes its guard
PreprocessorAlways(ri) == TRUE

\* lines 664-666: part2 runs the shell-0 preprocessor
PreprocessorRuns(ri) == ri.is_synchronized # 0

\* lines 648-667: part2 up to the calls of the driver at shell 0
Part2 ==
    /\ pc = "part1"
    /\ IF rim.allocatedN < r.N
       THEN /\ pc' = "idle"
            /\ obs' = [NoObs EXCEPT !.op = "part2"]
            /\ UNCHANGED <<r, rim, heap, stack, hist>>
       ELSE /\ heap' = [heap EXCEPT ![rim.t_drifted] =
                          [i \in PIdx |-> IF i < r.N THEN 0 ELSE @[i]]]
            /\ rim' = [rim EXCEPT !.p0 =
                          [i \in PIdx |-> IF i < r.N THEN r.particles[i] ELSE @[i]]]
            /\ stack' = (IF PreprocessorRuns(rim)
                         THEN reb_integrator_eos_preprocessor(r.dt, 0) ELSE << >>)
                        \o [k \in 1 .. 3 |->
                              LET c == reb_integrator_eos_step(r.dt, 0)[k]
                              IN Call(c.op, c.shell, c.a)]
            /\ pc' = "part2"
            /\ obs' = [NoObs EXCEPT !.op = "part2",
                                    !.sync = rim.is_synchronized,
                                    !.pre = PreprocessorRuns(rim)]
            /\ hist' = [(IF PreprocessorRuns(rim) THEN AfterPre(hist) ELSE hist)
                          EXCEPT !.ran = TRUE, !.driver = MAX(@, 0),
                                 !.maxSmax = MAX(@, rim.Nmaxshells)]
            /\ UNCHANGED r
    /\ UNCHANGED steps

\* particles in a shell-s map after predict
Members(ri, s) ==
    MapSet(ri.map_dominant, ri.shellN_dominant, s)
    \cup MapSet(ri.map_subdominant, ri.shellN_subdominant, s)
    \cup MapSet(ri.map_encounter, ri.shellN_encounter, s)

\* predict(shell) would use row shell+1 of tables that were allocated with
\* fewer rows (Nmaxshells was raised after the allocation)
BeyondRows(shell) == shell + 1 < rim.Nmaxshells /\ shell + 1 >= rim.rows

\* the pairs the passes (1), (2) and (4) of predict(s) go through: at shell
\* 0 every pair of particles, below that the pairs of the shell-s maps
ScanPairs(ri, N, s) ==
    IF s = 0 THEN {pr \in PIdx \X PIdx : pr[1] < pr[2] /\ pr[2] < N}
    ELSE LET dom == MapSet(ri.map_dominant, ri.shellN_dominant, s)
             sub == MapSet(ri.map_subdominant, ri.shellN_subdominant, s)
             enc == MapSet(ri.map_encounter, ri.shellN_encounter, s)
         IN {pr \in (dom \X dom) \cup (dom \X sub) \cup (enc \X enc) : pr[1] # pr[2]}

\* some pair of the shell-s maps comes closer than the sum of its radii
\* within dt
Due(rr, ri, dt, s) ==
    \E pr \in ScanPairs(ri, rr.N, s) :
        Touches(reb_mercurana_predict_rmin2(rr.particles[pr[1]], rr.particles[pr[2]], dt),
                rr.particles[pr[1]], rr.particles[pr[2]])

\* how many particles the resolver may remove during one call of predict
Removals == IF r.collision = "REB_COLLISION_DIRECT" THEN 0 .. MaxN ELSE {0}

\* the state S that drift_step leaves, and the calls of the driver at shell+1
Drifted(c, S) ==
       LET desc == Descends(S, c.shell)
           sub == SubShellCalls(S, c.a, c.shell)
           own == [i \in PIdx |-> FAdd(FMul(c.a, S.hit[i]), S.caught[i])]
           mem == Members(S.rim, c.shell)
       IN /\ r' = S.r
          /\ rim' = S.rim
          /\ heap' = S.heap
          /\ stack' = IF desc
                      THEN [k \in 1 .. Len(sub) |-> Call(sub[k].op, sub[k].shell, sub[k].a)]
                           \o << [op |-> "R", shell |-> c.shell, a |-> c.a,
                                  members |-> mem, base |-> hist.moved,
                                  t0 |-> r.t] >>
                           \o Tail(stack)
                      ELSE Tail(stack)
          /\ obs' = [NoObs EXCEPT !.op = "D", !.shell = c.shell, !.a = c.a,
                                   !.hit = S.hit, !.members = mem, !.adv = own,
                                   !.done = ~desc,
                                   !.clock = S.r.t - r.t,
                                   !.framed = S.framed,
                                   !.due = Due(r, rim, c.a, c.shell),
                                   !.recorded = S.recorded,
                                   !.searches = S.searches,
                                   !.reentries = S.reentries,
                                   !.fuel = S.fuel,
                                   !.N = r.N,
                                   !.tested = S.tested,
                                   !.wanted = S.wanted,
                                   !.promoted = S.promoted,
                                   !.stored = S.stored,
                                   !.caughtup = S.caughtup,
                                   !.inscan = S.inscan]
          /\ hist' = [hist EXCEPT
                        !.moved = [i \in PIdx |-> FAdd(@[i], own[i])],
                        !.driver = IF desc THEN MAX(@, c.shell + 1) ELSE @,
                        !.top = MAX(@, S.top)]

\* the state S that a drift_step leaves which returned at line 416
Interrupted(c, S) ==
    /\ r' = S.r
    /\ rim' = S.rim
    /\ heap' = S.heap
    /\ obs' = [NoObs EXCEPT !.op = "D", !.shell = c.shell, !.a = c.a,
                            !.hit = S.hit, !.done = TRUE,
                            !.same = (S.r = r /\ S.rim = rim /\ S.heap = heap)]

\* the driver calls Drift(shell, a) after reb_sigint was set: line 416
\* returns before predict, so nothing is written and the driver is not
\* invoked at shell+1
DriftInterrupted ==
    /\ pc = "part2"
    /\ stack # << >>
    /\ Head(stack).op = "D"
    /\ r.sigint # 0
    /\ Interrupted(Head(stack),
                   reb_integrator_mercurana_drift_step(
                       Mach(r, rim, heap), Head(stack).a, Head(stack).shell))
    /\ stack' = Tail(stack)
    /\ UNCHANGED <<pc, steps, hist>>

\* reb_sigint is set while part2 runs, between two calls of the driver
Interrupt ==
    /\ pc = "part2"
    /\ r.sigint = 0
    /\ r' = [r EXCEPT !.sigint = 1]
    /\ obs' = [NoObs EXCEPT !.op = "sigint"]
    /\ hist' = [hist EXCEPT !.atint = r.particles]
    /\ UNCHANGED <<rim, heap, pc, stack, steps>>

\* the driver calls Drift(shell, a)
Drift ==
    /\ pc = "part2"
    /\ stack # << >>
    /\ Head(stack).op = "D"
    /\ r.sigint = 0
    /\ ~BeyondRows(Head(stack).shell)
    /\ \E k \in Removals :
          Drifted(Head(stack),
                  reb_integrator_mercurana_drift_step(
                      [Mach(r, rim, heap) EXCEPT !.removals = k],
                      Head(stack).a, Head(stack).shell))
    /\ UNCHANGED <<pc, steps>>

\* Drift(shell, a) writes past the rows of the tables: the behaviour is
\* undefined from here on, and the model follows it no further
DriftFault ==
    /\ pc = "part2"
    /\ stack # << >>
    /\ Head(stack).op = "D"
    /\ BeyondRows(Head(stack).shell)
    /\ pc' = "fault"
    /\ obs' = [NoObs EXCEPT !.op = "fault", !.shell = Head(stack).shell]
    /\ UNCHANGED <<r, rim, heap, stack, steps, hist>>

\* the driver at shell+1 has returned: Drift(shell, a) returns
DriftReturn ==
    /\ pc = "part2"
    /\ stack # << >>
    /\ Head(stack).op = "R"
    /\ LET c == Head(stack)
       IN obs' = [NoObs EXCEPT
                     !.op = "R", !.shell = c.shell, !.a = c.a,
                     !.members = c.members,
                     !.adv = [i \in PIdx |-> FSub(hist.moved[i], c.base[i])],
                     !.clock = r.t - c.t0,
                     !.done = TRUE]
    /\ stack' = Tail(stack)
    /\ UNCHANGED <<r, rim, heap, pc, steps, hist>>

\* the driver calls Kick(shell, y, 0)
Kick ==
    /\ pc = "part2"
    /\ stack # << >>
    /\ Head(stack).op = "K"
    /\ LET c == Head(stack)
           S == reb_integrator_mercurana_interaction_step(Mach(r, rim, heap), c.a, c.shell)
       IN /\ r' = S.r
          /\ rim' = S.rim
          /\ heap' = S.heap
          /\ obs' = [NoObs EXCEPT
                        !.op = "K", !.shell = c.shell, !.a = c.a, !.hit = S.hit,
                        !.members = IF c.shell = 0 THEN {i \in PIdx : i < r.N}
                                    ELSE Members(rim, c.shell),
                        !.done = TRUE]
          /\ hist' = [hist EXCEPT !.top = MAX(@, S.top)]
    /\ stack' = Tail(stack)
    /\ UNCHANGED <<pc, steps>>

\* lines 669-675: the driver has returned to part2
Part2End ==
    /\ pc = "part2"
    /\ stack = << >>
    /\ LET S0 == [Mach(r, rim, heap) EXCEPT !.rim.is_synchronized = 0]
           S == IF rim.safe_mode # 0
                THEN reb_integrator_mercurana_synchronize(S0) ELSE S0
       IN /\ rim' = S.rim
          /\ obs' = [NoObs EXCEPT !.op = "end", !.sync = rim.is_synchronized,
                                  !.post = S.post]
          /\ hist' = AfterPost(hist, S.post)
    /\ r' = [r EXCEPT !.dt_last_done = r.dt]
    /\ pc' = "idle"
    /\ UNCHANGED <<heap, stack, steps>>

\* the host sets Nmaxshells between two steps
Configure ==
    /\ pc = "idle"
    /\ steps >= 1
    /\ steps < MaxSteps
    /\ obs.op # "configure"
    /\ \E Smax \in 0 .. MaxShells :
          /\ Smax # rim.Nmaxshells
          /\ rim' = [rim EXCEPT !.Nmaxshells = Smax]
    /\ obs' = [NoObs EXCEPT !.op = "configure"]
    /\ UNCHANGED <<r, heap, pc, stack, steps, hist>>

\* the host calls reb_integrator_mercurana_synchronize between two steps
Synchronize ==
    /\ pc = "idle"
    /\ obs.count < 2
    /\ LET S == reb_integrator_mercurana_synchronize(Mach(r, rim, heap))
       IN /\ rim' = S.rim
          /\ obs' = [NoObs EXCEPT
                        !.op = "synchronize", !.sync = rim.is_synchronized,
                        !.post = S.post,
                        !.count = obs.count + 1,
                        !.first = IF obs.count = 0 THEN S.post ELSE obs.first,
                        !.same = (S.r = r /\ S.rim = rim /\ S.heap = heap)]
          /\ hist' = AfterPost(hist, S.post)
    /\ UNCHANGED <<r, heap, pc, stack, steps>>

\* the blocks that are allocated after lines 545-547 have left the handles
\* of ri: a realloc that moves frees the block it was given
LiveBlocks(ri) ==
    LET t == ri.t_drifted
        A == IF ri.maxdrift_encounter = t THEN {t} ELSE {ri.maxdrift_encounter}
    IN IF ri.allocatedN = 0 THEN {}
       ELSE IF ri.maxdrift_dominant = t THEN A \cup {t}
       ELSE (A \ {t}) \cup {ri.maxdrift_dominant}

\* lines 692-743: reb_integrator_mercurana_reset.  The rows are freed for
\* i < Nmaxshells (lines 695-700); t_drifted, maxdrift_encounter and
\* maxdrift_dominant are freed (lines 710-712) and keep their value, the
\* other handles are set to NULL (lines 716-726).
reb_integrator_mercurana_reset(ri) ==
    [ResetState([Nmaxshells |-> 10, n0 |-> 2, n1 |-> 0, kappa |-> 1,
                 N_dominant |-> 0])
       EXCEPT !.t_drifted = ri.t_drifted,
              !.maxdrift_encounter = ri.maxdrift_encounter,
              !.maxdrift_dominant = ri.maxdrift_dominant]

\* the host resets the integrator and sets its configuration again
Reset ==
    /\ pc = "idle"
    /\ steps >= 1
    /\ obs.op # "reset"
    /\ rim' = [reb_integrator_mercurana_reset(rim) EXCEPT
                  !.Nmaxshells = rim.Nmaxshells, !.n0 = rim.n0, !.n1 = rim.n1,
                  !.kappa = rim.kappa, !.N_dominant = rim.N_dominant]
    /\ obs' = [NoObs EXCEPT
                  !.op = "reset",
                  !.frees = IF rim.allocatedN # 0
                            THEN <<rim.t_drifted, rim.maxdrift_encounter,
                                   rim.maxdrift_dominant>>
                            ELSE << >>,
                  !.members = LiveBlocks(rim),
                  !.rows = IF rim.allocatedN # 0 THEN rim.Nmaxshells ELSE -1,
                  !.had = rim.rows]
    /\ hist' = [hist EXCEPT !.npre = 0, !.npost = 0, !.last = "none", !.alt = TRUE]
    /\ UNCHANGED <<r, heap, pc, stack, steps>>

\* the host adds a particle between two steps
Grow ==
    /\ pc = "idle"
    /\ steps >= 1
    /\ steps < MaxSteps
    /\ r.N < MaxN
    /\ r' = [r EXCEPT !.N = @ + 1,
                      !.particles[r.N] = [x |-> 64, vx |-> -2, ax |-> 0, m |-> 1, r |-> 0]]
    /\ obs' = [NoObs EXCEPT !.op = "grow"]
    /\ UNCHANGED <<rim, heap, pc, stack, steps, hist>>

\* the host sets safe_mode, or asks for the critical radii to be recalculated
HostFlag ==
    /\ pc = "idle"
    /\ steps < MaxSteps
    /\ obs.op # "flag"
    /\ \/ rim' = [rim EXCEPT !.safe_mode = 1 - @]
       \/ /\ rim.recalculate_dcrit_this_timestep = 0
          /\ rim' = [rim EXCEPT !.recalculate_dcrit_this_timestep = 1]
    /\ obs' = [NoObs EXCEPT !.op = "flag"]
    /\ UNCHANGED <<r, heap, pc, stack, steps, hist>>

\* the host chooses the schemes of shell 0 and of the deeper shells before
\* the first step
HostScheme ==
    /\ pc = "idle"
    /\ steps = 0
    /\ obs.op = "none"
    /\ \E p0 \in Schemes, p1 \in Schemes :
          rim' = [rim EXCEPT !.phi0 = p0, !.phi1 = p1]
    /\ obs' = [NoObs EXCEPT !.op = "scheme"]
    /\ UNCHANGED <<r, heap, pc, stack, steps, hist>>

\* the host changes kappa or n0 between two steps
HostParameter ==
    /\ pc = "idle"
    /\ steps >= 1
    /\ steps < MaxSteps
    /\ obs.op # "parameter"
    /\ \E k \in {1, 8}, n \in {0, 2} :
          /\ <<k, n>> # <<rim.kappa, rim.n0>>
          /\ rim' = [rim EXCEPT !.kappa = k, !.n0 = n]
    /\ obs' = [NoObs EXCEPT !.op = "parameter"]
    /\ UNCHANGED <<r, heap, pc, stack, steps, hist>>

\* the drift intervals put to the predictor: both signs, and zero
Intervals == {-32, -4, 0, 4, 32}

\* reb_mercurana_predict_rmin2 is applied to particles 0 and 1 and a drift
\* interval
PredictRmin2 ==
    /\ pc = "idle"
    /\ steps = 0
    /\ \E dt \in Intervals :
          /\ dt # obs.a \/ obs.op = "none"
          /\ obs' = [NoObs EXCEPT
                        !.op = "rmin2", !.a = dt,
                        !.rmin2 = reb_mercurana_predict_rmin2(
                                      r.particles[0], r.particles[1], dt)]
    /\ UNCHANGED <<r, rim, heap, pc, stack, steps, hist>>

----------------------------------------------------------------------------
(* Specifications                                                          *)

\* the configurations the host may set
Configs ==
    [Nmaxshells : 0 .. MaxShells, n0 : {0, 2}, n1 : {0, 2}, kappa : {0, 1},
     N_dominant : {0, 1}]

\* the distances between neighbours on the x axis
Gaps == { <<2, 16>>, <<8, 2>>, <<8, 16>>, <<16, 2>>, <<2, 2, 16>>, <<8, 2, 16>> }

RECURSIVE XAt(_, _)
XAt(gaps, i) == IF i = 0 THEN 0 ELSE XAt(gaps, i - 1) + gaps[i]

\* particle 0 at the origin, at rest or moving; the others move left
Particles ==
    { [i \in 0 .. Len(g) |-> [x |-> XAt(g, i), vx |-> IF i = 0 THEN v0 ELSE -2,
                              ax |-> 0, m |-> 1, r |-> 0]] :
        g \in Gaps, v0 \in {-2, 0, 2} }

\* global steps under a configuration that stays as the host set it
Init ==
    \E ps \in Particles, cfg \in Configs :
        InitWith(Cardinality(DOMAIN ps), ps, cfg)

Next ==
    \/ Part1
    \/ Part2
    \/ Drift
    \/ DriftReturn
    \/ Kick
    \/ Part2End

Spec == Init /\ [][Next]_vars

\* global steps between which the host changes Nmaxshells
InitCfg ==
    \E cfg \in Configs :
        /\ cfg.N_dominant = 1
        /\ InitWith(3, [i \in 0 .. 2 |-> [x |-> XAt(<<8, 2>>, i), vx |-> -2,
                                          ax |-> 0, m |-> 1, r |-> 0]], cfg)

NextCfg ==
    \/ Part1
    \/ Part2
    \/ Drift
    \/ DriftFault
    \/ DriftReturn
    \/ Kick
    \/ Part2End
    \/ Configure

SpecCfg == InitCfg /\ [][NextCfg]_vars

\* the life of an integrator: steps between which the host changes
\* Nmaxshells, N, safe_mode or the recalculation flag, synchronizes or resets
InitLife ==
    \E cfg \in Configs :
        /\ cfg.N_dominant = 1 /\ cfg.kappa = 1 /\ cfg.n1 = 0
        /\ cfg.Nmaxshells >= 1
        /\ InitWith(3, [i \in 0 .. 2 |-> [x |-> XAt(<<8, 2>>, i), vx |-> -2,
                                          ax |-> 0, m |-> 1, r |-> 0]], cfg)

NextLife ==
    \/ Part1
    \/ Part2
    \/ Drift
    \/ DriftFault
    \/ DriftReturn
    \/ Kick
    \/ Part2End
    \/ Configure
    \/ Synchronize
    \/ Reset
    \/ Grow
    \/ HostFlag

SpecLife == InitLife /\ [][NextLife]_vars

\* the radius of the particles that can collide
Radius == 1

\* global steps of particles with a radius under REB_COLLISION_DIRECT
\* the distances between neighbours that can collide
ColGaps == { <<8, 2>>, <<32, 2>>, <<8, 2, 16>> }

\* particle 0 at rest or moving right, the others moving left
ColParticles ==
    { [i \in 0 .. Len(g) |-> [x |-> XAt(g, i), vx |-> IF i = 0 THEN v0 ELSE -2,
                              ax |-> 0, m |-> 1, r |-> Radius]] :
        g \in ColGaps, v0 \in {0, 2} }

InitCol ==
    \E ps \in ColParticles, cfg \in Configs :
        /\ cfg.kappa = 1 /\ cfg.n0 = 2 /\ cfg.n1 = 0 /\ cfg.Nmaxshells >= 1
        /\ r = [N |-> Cardinality(DOMAIN ps), dt |-> 32, t |-> 0, dt_last_done |-> 0,
                collision |-> "REB_COLLISION_DIRECT", sigint |-> 0,
                particles |-> [i \in PIdx |-> IF i \in DOMAIN ps THEN ps[i]
                                               ELSE NoParticle]]
        /\ rim = ResetState(cfg)
        /\ heap = [h \in 1 .. 3 |-> Zero]
        /\ pc = "idle"
        /\ stack = << >>
        /\ steps = 0
        /\ obs = NoObs
        /\ hist = NoHist

SpecCol == InitCol /\ [][Next]_vars

\* global steps during which reb_sigint is set
InitInt ==
    \E ps \in Particles, cfg \in Configs :
        /\ ps[1].x = 8 /\ ps[2].x = 10
        /\ cfg.kappa = 1 /\ cfg.n0 = 2 /\ cfg.n1 = 0 /\ cfg.Nmaxshells >= 2
        /\ InitWith(Cardinality(DOMAIN ps), ps, cfg)

NextInt ==
    \/ Part1
    \/ Part2
    \/ Drift
    \/ DriftInterrupted
    \/ DriftReturn
    \/ Kick
    \/ Part2End
    \/ Interrupt

SpecInt == InitInt /\ [][NextInt]_vars

\* part1 under every pair of schemes: the driver's calls under a scheme
\* other than leap-frog are not followed, so the step ends with part1
InitPhi ==
    \E cfg \in Configs :
        /\ cfg.kappa = 1
        /\ cfg.N_dominant = 0
        /\ InitWith(3, [i \in 0 .. 2 |-> [x |-> XAt(<<8, 2>>, i), vx |-> -2,
                                          ax |-> 0, m |-> 1, r |-> 0]], cfg)

NextPhi ==
    \/ HostScheme
    \/ Part1

SpecPhi == InitPhi /\ [][NextPhi]_vars

\* steps between which the host changes a parameter that enters dcrit
InitPar ==
    \E cfg \in Configs :
        /\ cfg.kappa = 1 /\ cfg.N_dominant = 0 /\ cfg.Nmaxshells >= 1
        /\ InitWith(3, [i \in 0 .. 2 |-> [x |-> XAt(<<8, 2>>, i), vx |-> -2,
                                          ax |-> 0, m |-> 1, r |-> 0]], cfg)

NextPar ==
    \/ Part1
    \/ Part2
    \/ Drift
    \/ DriftReturn
    \/ Kick
    \/ Part2End
    \/ HostParameter
    \/ HostFlag

SpecPar == InitPar /\ [][NextPar]_vars

\* the predictor on pairs of particles at rest, approaching and separating
PairsOnAxis ==
    { [i \in 0 .. 1 |-> [x |-> IF i = 0 THEN 0 ELSE x1,
                         vx |-> IF i = 0 THEN v0 ELSE v1,
                         ax |-> 0, m |-> 1, r |-> 0]] :
        x1 \in {-64, -8, -2, 0, 2, 8, 64}, v0 \in {-2, 0, 2}, v1 \in {-2, 0, 2} }

InitRmin ==
    \E ps \in PairsOnAxis :
        InitWith(2, ps, [Nmaxshells |-> 1, n0 |-> 0, n1 |-> 0, kappa |-> 1,
                         N_dominant |-> 0])

NextRmin == PredictRmin2

SpecRmin == InitRmin /\ [][NextRmin]_vars

----------------------------------------------------------------------------
(* Claims                                                                  *)

Roles == {"dominant", "subdominant", "encounter"}

RoleSet(ri, X, s) ==
    IF X = "dominant" THEN MapSet(ri.map_dominant, ri.shellN_dominant, s)
    ELSE IF X = "subdominant" THEN MapSet(ri.map_subdominant, ri.shellN_subdominant, s)
    ELSE MapSet(ri.map_encounter, ri.shellN_encounter, s)

RoleInshell(ri, X) ==
    IF X = "dominant" THEN ri.inshell_dominant
    ELSE IF X = "subdominant" THEN ri.inshell_subdominant
    ELSE ri.inshell_encounter

\* the constraints the specification states on the configuration
StatedValid(ri) ==
    /\ ri.Nmaxshells >= 1
    /\ ri.Nmaxshells > 1 => ri.n0 > 0
    /\ ri.Nmaxshells > 2 => ri.n1 > 0
    /\ ri.Nmaxshells > 1 => ri.kappa > 0

\* a configuration that is valid as stated and that part1 accepts
Accepted(ri) == StatedValid(ri) /\ ConfigError(ri) = "none"

\* predict(s, dt) has just run and shell s+1 exists
AfterPredict ==
    pc = "part2" /\ obs.op = "D" /\ obs.shell + 1 < rim.Nmaxshells /\ Accepted(rim)

\* C1: after every predict(s, dt) of a global step, for every role X and every
\* shell pair (k, k+1) with k <= s, each index stored in map_X[k+1] is stored
\* in map_X[k]
C1_Nested ==
    AfterPredict =>
        \A X \in Roles : \A k \in 0 .. obs.shell :
            RoleSet(rim, X, k + 1) \subseteq RoleSet(rim, X, k)

\* C2: after every predict(s, dt) of a global step, for every particle i of a
\* role X, inshell_X[i] is the deepest of the shells 0 .. s+1 whose map_X
\* stores i
C2_InshellDeepest ==
    AfterPredict =>
        \A X \in Roles : \A i \in RoleSet(rim, X, 0) :
            /\ RoleInshell(rim, X)[i] \in 0 .. obs.shell + 1
            /\ i \in RoleSet(rim, X, RoleInshell(rim, X)[i])
            /\ \A k \in 0 .. obs.shell + 1 :
                   i \in RoleSet(rim, X, k) => k <= RoleInshell(rim, X)[i]

\* the rows of shell s as predict leaves them
SubShell(S, s) ==
    [X \in Roles |->
        [n |-> IF X = "dominant" THEN S.rim.shellN_dominant[s]
               ELSE IF X = "subdominant" THEN S.rim.shellN_subdominant[s]
               ELSE S.rim.shellN_encounter[s],
         set |-> RoleSet(S.rim, X, s)]]

\* C3: predict(s, a) called twice in succession leaves the same shell-(s+1)
\* maps and counts after the second call as after the first
C3_PredictTwice ==
    (pc = "part2" /\ stack # << >> /\ Head(stack).op = "D"
        /\ Head(stack).shell + 1 < rim.Nmaxshells /\ Accepted(rim))
    => LET c == Head(stack)
           S1 == reb_mercurana_encounter_predict(Mach(r, rim, heap), c.a, c.shell)
           S2 == reb_mercurana_encounter_predict(S1, c.a, c.shell)
       IN SubShell(S2, c.shell + 1) = SubShell(S1, c.shell + 1)

\* part2 has completed a step with sub-shells under a valid configuration
StepDone ==
    pc = "idle" /\ obs.op = "end" /\ hist.ran /\ Accepted(rim) /\ rim.Nmaxshells >= 2

\* C4: after part2 (with sub-shells, Nmaxshells >= 2), t_drifted[i] is the
\* drift time applied to the position of i during the step, and that is dt,
\* for every particle
C4_DriftedIsDt ==
    StepDone =>
        \A i \in PIdx : i < r.N =>
            /\ heap[rim.t_drifted][i] = hist.moved[i]
            /\ hist.moved[i] = r.dt

\* C5: a Drift(s, a) call, its descent included, advances every particle of
\* the shell-s maps by a in total, and its own loops advance none twice
\* (with sub-shells, Nmaxshells >= 2)
C5_DriftOnce ==
    (pc = "part2" /\ obs.op \in {"D", "R"} /\ Accepted(rim) /\ rim.Nmaxshells >= 2)
    => /\ obs.done => \A i \in obs.members : obs.adv[i] = obs.a
       /\ \A i \in PIdx : obs.hit[i] <= 1

\* C6: a Kick(s, y, v) call adds y times the acceleration exactly once to every
\* particle of the shell-s maps (at s = 0: every particle) and to no other
\* (with sub-shells, Nmaxshells >= 2)
C6_KickOnce ==
    (pc = "part2" /\ obs.op = "K" /\ Accepted(rim) /\ rim.Nmaxshells >= 2)
    => \A i \in PIdx : obs.hit[i] = IF i \in obs.members THEN 1 ELSE 0

\* the leap-frog step of the particles part1 saw: drift dt/2, kick dt, drift dt/2
LeapFrog(ps, N, dt) ==
    LET half == [i \in PIdx |-> IF i < N
                               THEN [ps[i] EXCEPT !.x = @ + (dt \div 2) * ps[i].vx]
                               ELSE ps[i]]
        kicked == [i \in PIdx |-> IF i < N
                                 THEN [half[i] EXCEPT !.ax = Gravity(half, N, i),
                                                      !.vx = @ + dt * Gravity(half, N, i)]
                                 ELSE half[i]]
    IN [i \in PIdx |-> IF i < N
                       THEN [kicked[i] EXCEPT !.x = @ + (dt \div 2) * kicked[i].vx]
                       ELSE kicked[i]]

\* C7: with Nmaxshells = 1 and n0 = 0, one part2 step is the plain leap-frog
\* step at shell 0: every particle drifted dt/2, kicked dt, drifted dt/2
C7_LeapFrogAtOneShell ==
    (pc = "idle" /\ obs.op = "end" /\ hist.err = "none" /\ hist.ran
        /\ rim.Nmaxshells = 1 /\ rim.n0 = 0)
    => /\ \A i \in PIdx : i < r.N =>
             /\ r.particles[i].x = LeapFrog(hist.pre, r.N, r.dt)[i].x
             /\ r.particles[i].vx = LeapFrog(hist.pre, r.N, r.dt)[i].vx
       /\ rim.Nmaxshellsused = 1

\* C8: during a global step no call and no table index reaches
\* Nmaxshells, 1 <= Nmaxshellsused <= Nmaxshells, and Nmaxshellsused is 1 plus
\* the deepest shell the driver was invoked at
C8_AsStated ==
    pc = "part2" =>
        /\ obs.op \in {"D", "K"} => obs.shell < rim.Nmaxshells
        /\ hist.top < rim.Nmaxshells
        /\ 1 <= rim.Nmaxshellsused /\ rim.Nmaxshellsused <= rim.Nmaxshells
        /\ rim.Nmaxshellsused = 1 + hist.driver

\* C9: when part1 reports a configuration error, part2 is a no-op: no particle
\* and not the clock changes
C9_ErrorIsNoOp ==
    hist.err # "none" =>
        /\ r.particles = hist.pre
        /\ r.t = hist.pre_t

C11_RowsAreSmax ==
    (obs.op = "part1" /\ obs.err = "none") =>
        /\ rim.rows = rim.Nmaxshells
        /\ rim.allocatedN >= r.N
        /\ obs.rows # -1 => obs.rows = obs.had

\* the configuration the host has set
CfgOf(ri) ==
    [Nmaxshells |-> ri.Nmaxshells, n0 |-> ri.n0, n1 |-> ri.n1,
     kappa |-> ri.kappa, N_dominant |-> ri.N_dominant]

\* how often the block b is passed to free by the call observed
FreesOf(b) == Cardinality({k \in DOMAIN obs.frees : obs.frees[k] = b})

\* C12: reset releases every buffer the integrator owns exactly once (no
\* block is freed twice, nothing is freed that was already released, the rows
\* are freed with the row count they were allocated with), clears every
\* buffer handle, t_drifted, maxdrift_encounter and maxdrift_dominant among
\* them, and leaves the state of a newly constructed integrator.
C12_ResetIsClean ==
    obs.op = "reset" =>
        /\ \A b \in obs.members : FreesOf(b) = 1
        /\ \A k \in DOMAIN obs.frees : obs.frees[k] \in obs.members
        /\ obs.rows # -1 => obs.rows = obs.had
        /\ rim.t_drifted = NULL
        /\ rim.maxdrift_encounter = NULL
        /\ rim.maxdrift_dominant = NULL
        /\ rim = ResetState(CfgOf(rim))

\* C13: synchronize is idempotent.  The first of two calls in a row runs the
\* shell-0 postprocessor exactly if the state was unsynchronized and leaves
\* it synchronized; the second call runs no postprocessor and changes nothing.
C13_SynchronizeIdempotent ==
    obs.op = "synchronize" =>
        /\ rim.is_synchronized = 1
        /\ obs.count = 1 => (obs.post = 1 <=> obs.sync = 0)
        /\ obs.count = 1 => (obs.post = 0 <=> obs.sync # 0)
        /\ obs.count = 2 => (obs.post = 0 /\ obs.same)

\* synchronize was called twice in a row on an unsynchronized state: the
\* first call ran the postprocessor
C13_TwiceFromUnsynchronized ==
    /\ obs.op = "synchronize"
    /\ obs.count = 2
    /\ obs.same
    /\ obs.first = 1
    /\ obs.post = 0

C15_CollisionAtEveryShell ==
    (obs.op = "D" /\ r.collision = "REB_COLLISION_DIRECT" /\ obs.due) =>
        (obs.recorded > 0 /\ obs.searches > 0)

\* C18: when the resolver removes a particle during predict(s), predict is
\* entered again, and when the Drift returns every index stored in a shell
\* map of the shells 0 .. s+1 (within its count) is below the new N, the
\* collision count is 0 and the particle set is the reduced one.
C18_MapsValidAfterRemoval ==
    (obs.op = "D" /\ obs.reentries > 0) =>
        /\ \A s \in Shells : \A X \in Roles :
               s <= obs.shell + 1 => \A m \in RoleSet(rim, X, s) : m < r.N
        /\ rim.collisions_N = 0
        /\ r.N < obs.N

\* C19: predict terminates.  With a resolver that never increases N, the
\* calls predict makes to itself within one Drift are no more than the
\* particles at entry, and one for each run of the resolver that changed N:
\* a run that leaves N unchanged causes no re-entry.
C19_ReentriesBounded ==
    obs.op = "D" =>
        /\ obs.reentries <= obs.N
        /\ obs.reentries = obs.N - r.N
        /\ obs.reentries <= obs.searches
        /\ obs.fuel > 0

\* a Drift in which the resolver ran twice: once it removed a particle and
\* predict was entered again, once it left N unchanged and predict returned
C19_ReentryThenReturn ==
    /\ obs.op = "D"
    /\ obs.reentries = 1
    /\ obs.searches = 2
    /\ r.N = obs.N - 1

\* C16: in the max-drift phase of predict(s), s > 0, the particles that are
\* examined again for a particle i over its limit are exactly the members of
\* the shell-0 encounter map with inshell_encounter[j] < s, each of them put
\* to the drifted predictor once.
C16_RescanIsShellZero ==
    (obs.op = "D" /\ obs.shell > 0) =>
        /\ {obs.tested[k] : k \in DOMAIN obs.tested} = obs.wanted
        /\ Len(obs.tested) = Cardinality(obs.wanted)

\* C17: when the max-drift phase of predict(s) promotes j because of i, then
\* on return j is in the encounter maps of the shells 1 .. s with
\* inshell_encounter[j] at s, j has caught up (its t_drifted equals that of
\* i), and j has taken part in the Enc-Enc pair scan of the same call.
C17_PromotedCaughtUp ==
    (obs.op = "D" /\ obs.shell > 0 /\ obs.promoted # << >>) =>
        /\ obs.stored
        /\ obs.caughtup
        /\ obs.inscan

\* C20: once reb_sigint is set, every Drift returns at once: it writes
\* nothing (no predict, no position, no t_drifted, no map, no clock) and
\* does not descend; and when part2 returns, the particles are as they were
\* after the last sub-step completed before the interrupt, with no further
\* update of a position or a velocity.
C20_InterruptFreezes ==
    /\ (obs.op = "D" /\ r.sigint # 0) => (obs.same /\ obs.hit = Zero)
    /\ (obs.op = "end" /\ r.sigint # 0) =>
           \A i \in PIdx : /\ r.particles[i].x = hist.atint[i].x
                           /\ r.particles[i].vx = hist.atint[i].vx

----------------------------------------------------------------------------
(* The clock                                                               *)

\* C21: without an interrupt and under an accepted configuration, every
\* Drift(s, a) that has returned has advanced the clock r->t by exactly a,
\* directly or through the sub-steps at shell s+1, and a part2 that went past
\* its guard has advanced the clock by exactly dt
C21_ClockAdvancesByA ==
    /\ (obs.op \in {"D", "R"} /\ obs.done /\ r.sigint = 0) => obs.clock = obs.a
    /\ (obs.op = "end" /\ hist.ran /\ r.sigint = 0) => r.t = hist.pre_t + r.dt

----------------------------------------------------------------------------
(* The critical radii                                                      *)

\* the coefficient table the driver publishes for each scheme; leap-frog and
\* its processed form PMLF4 have the single drift coefficient 0.5
OwnTable(phi) ==
    CASE phi \in {"REB_EOS_LF", "REB_EOS_PMLF4"} -> "literal"
      [] phi = "REB_EOS_LF4" -> "reb_eos_lf4_a"
      [] phi = "REB_EOS_LF6" -> "reb_eos_lf6_a"
      [] phi = "REB_EOS_LF8" -> "reb_eos_lf8_a"
      [] phi = "REB_EOS_LF4_2" -> "reb_eos_lf4_2_a"
      [] phi = "REB_EOS_LF8_6_4" -> "reb_eos_lf8_6_4_a"
      [] phi = "REB_EOS_PMLF6" -> "reb_eos_pmlf6_a"
      [] phi = "REB_EOS_PLF7_6_4" -> "reb_eos_plf7_6_4_a"

\* C22: when part1 has computed the dcrit table, the dt_shell of shell s+1 is
\* that of shell s times one coefficient and divided by the sub-step count,
\* and the coefficient is taken from the table of the scheme of shell s
\* itself (phi0 for s = 0, phi1 otherwise)
C22_OwnCoefficient ==
    (obs.op = "part1" /\ obs.err = "none") =>
        \A s \in Shells :
            s + 1 < rim.Nmaxshells =>
                /\ Len(rim.dt_shell[s + 1]) = s + 1
                /\ SubSeq(rim.dt_shell[s + 1], 1, s) = rim.dt_shell[s]
                /\ rim.dt_shell[s + 1][s + 1].n = DcritSubSteps(rim, s)
                /\ rim.dt_shell[s + 1][s + 1].coefficient.table
                       = OwnTable(PhiOf(rim, s))

\* the dcrit table holds, for every shell and particle, the value lines
\* 563-621 give for the current particles and parameters
DcritCurrent ==
    \A s \in Shells, i \in PIdx :
        (s < rim.Nmaxshells /\ i < r.N) =>
            rim.dcrit[s][i] = Dcrit(rim, s, r.particles[i].m)

\* C23: a part1 that reports no error has computed the dcrit table if the
\* host had set recalculate_dcrit_this_timestep, if N differed from the N of
\* the last computation, or if a parameter entering dcrit differed from what
\* it was at the last computation: on its return the last computation is one
\* for the current N and parameters, and the table corresponds to the
\* current particles and parameters
C23_RecalculatedWhenStale ==
    (obs.op = "part1" /\ obs.err = "none") =>
        /\ obs.flag # 0 => obs.recalculated
        /\ hist.dcritN = r.N
        /\ hist.dcritPar = DcritParameters(r, rim)
        /\ DcritCurrent

----------------------------------------------------------------------------
(* The predictor                                                           *)

\* the squared separation of p1 and p2 before the drift
StartSep2(p1, p2) == (p1.x - p2.x) * (p1.x - p2.x)

\* the squared separation after a linear drift over dt
EndSep2(p1, p2, dt) ==
    LET dx == (p1.x - p2.x) + dt * (p1.vx - p2.vx) IN dx * dx

\* the time of closest approach of the linear drift, -(dx.dv)/(dv.dv) with
\* dv the relative velocity in the direction of the drift, lies in [0, |dt|]
ClosestInside(p1, p2, dt) ==
    LET dx == p1.x - p2.x
        dv == (IF dt < 0 THEN -1 ELSE 1) * (p1.vx - p2.vx)
    IN /\ dv # 0
       /\ -(dx * dv) >= 0
       /\ -(dx * dv) <= Abs(dt) * dv * dv

\* the squared separation at the time of closest approach,
\* (dx + t*dv)^2 at t = -(dx.dv)/(dv.dv), for dv # 0 (on a line it vanishes)
ClosestSep2(p1, p2, dt) ==
    LET dx == p1.x - p2.x
        dv == (IF dt < 0 THEN -1 ELSE 1) * (p1.vx - p2.vx)
        num == dx * (dv * dv) - (dx * dv) * dv
    IN (num * num) \div (dv * dv * dv * dv)

\* C24: for every pair and every signed drift interval dt, dt = 0 and equal
\* velocities included, rmin2 is at most the smaller of the squared
\* separations at the start and the end of the drift, equals it when the
\* time of closest approach lies outside [0, |dt|], and equals the squared
\* separation at that time when it lies inside
C24_Rmin2IsClosest ==
    obs.op = "rmin2" =>
        LET p1 == r.particles[0]
            p2 == r.particles[1]
            ends == MIN(StartSep2(p1, p2), EndSep2(p1, p2, obs.a))
        IN /\ obs.rmin2 <= ends
           /\ ~ClosestInside(p1, p2, obs.a) => obs.rmin2 = ends
           /\ ClosestInside(p1, p2, obs.a) => obs.rmin2 = ClosestSep2(p1, p2, obs.a)

----------------------------------------------------------------------------
(* The per-particle buffers                                                *)

\* C25: once part1 has allocated them, t_drifted, maxdrift_dominant and
\* maxdrift_encounter are three distinct buffers: no write of predict to a
\* maxdrift value changes a t_drifted value, and no t_drifted update of
\* Drift changes a maxdrift value
C25_ThreeBuffers ==
    /\ rim.allocatedN > 0 =>
           /\ rim.t_drifted # rim.maxdrift_encounter
           /\ rim.t_drifted # rim.maxdrift_dominant
           /\ rim.maxdrift_encounter # rim.maxdrift_dominant
    /\ obs.op = "D" => obs.framed

----------------------------------------------------------------------------
(* The shell maps                                                          *)

\* the count of row s is between 0 and N and the entries below it differ
RowIsSet(map, shellN, s) ==
    /\ shellN[s] >= 0
    /\ shellN[s] <= r.N
    /\ \A k1, k2 \in PIdx :
           (k1 < k2 /\ k2 < shellN[s]) => map[s][k1] # map[s][k2]

\* C26: in every state of a global step with N_dominant <= N that predict
\* has reached, no particle index occurs twice within the first shellN_X[s]
\* entries of map_X[s] and 0 <= shellN_X[s] <= N, for every role X and every
\* shell s the step has used, so no append writes beyond the N entries of a
\* row
C26_MapsAreSets ==
    (pc = "part2" /\ rim.N_dominant <= r.N /\ hist.top >= 0) =>
        \A s \in Shells :
            (s < rim.Nmaxshells /\ s <= hist.top) =>
                /\ RowIsSet(rim.map_encounter, rim.shellN_encounter, s)
                /\ RowIsSet(rim.map_dominant, rim.shellN_dominant, s)
                /\ RowIsSet(rim.map_subdominant, rim.shellN_subdominant, s)

====
